---- MODULE Spec2Model ----
(***************************************************************************)
(* Model of resume_feedback_ai.py: the feedback-request pipeline run by    *)
(* the Streamlit script.  One script run is triggered by the button; it    *)
(* calls extract_resume_text, then get_feedback_nvidia, then renders.      *)
(*                                                                         *)
(* Strings are sequences of text units.  A unit is one character, or one   *)
(* literal chunk of the source (a prompt literal, a key literal) kept      *)
(* whole.  Python values (None, bool, int, str, list, dict) are records    *)
(* with the same five fields, so that any two of them can be compared.     *)
(***************************************************************************)
EXTENDS Integers, Sequences, FiniteSets, TLC

VARIABLES API_KEY, uploaded_file, target_role, pc, triggered, resume_text,
          extract_calls, payload, requests_built, request, posts, response,
          feedback, messages, rendered

vars == <<API_KEY, uploaded_file, target_role, pc, triggered, resume_text,
          extract_calls, payload, requests_built, request, posts, response,
          feedback, messages, rendered>>

\* ---------------------------------------------------------------- bounds
MaxTextLen == 2
MaxRoleLen == 2

\* ------------------------------------------------------- sequences, sets
Min(S) == CHOOSE x \in S : \A y \in S : x <= y
Max(S) == CHOOSE x \in S : \A y \in S : x >= y

SeqsUpTo(A, n) == UNION {[1..k -> A] : k \in 0..n}

\* p in s, for two Python strings
IsSubstring(p, s) ==
    \E i \in 0..(Len(s) - Len(p)) : SubSeq(s, i + 1, i + Len(p)) = p

\* s.startswith(p)
StartsWith(s, p) == Len(p) <= Len(s) /\ SubSeq(s, 1, Len(p)) = p

\* the characters str.strip() removes
Whitespace == {" ", "\t", "\n"}

\* s.strip()
Strip(s) ==
    LET keep == {i \in 1..Len(s) : s[i] \notin Whitespace}
    IN  IF keep = {} THEN <<>> ELSE SubSeq(s, Min(keep), Max(keep))

\* ---------------------------------------------------------- Python values
PyNone == [t |-> "None", n |-> 0, s |-> <<>>, keys |-> <<>>, kids |-> <<>>]
PyBool(b) == [t |-> "bool", n |-> IF b THEN 1 ELSE 0, s |-> <<>>,
              keys |-> <<>>, kids |-> <<>>]
PyInt(i) == [t |-> "int", n |-> i, s |-> <<>>, keys |-> <<>>, kids |-> <<>>]
PyStr(x) == [t |-> "str", n |-> 0, s |-> x, keys |-> <<>>, kids |-> <<>>]
PyList(xs) == [t |-> "list", n |-> 0, s |-> <<>>, keys |-> <<>>, kids |-> xs]
PyDict(ks, vs) == [t |-> "dict", n |-> 0, s |-> <<>>, keys |-> ks, kids |-> vs]

\* bool(v)
Truthy(v) ==
    CASE v.t = "None" -> FALSE
      [] v.t = "bool" -> v.n = 1
      [] v.t = "int"  -> v.n # 0
      [] v.t = "str"  -> v.s # <<>>
      [] v.t = "list" -> v.kids # <<>>
      [] v.t = "dict" -> v.keys # <<>>

\* the outcome of evaluating an expression: a value, or an exception raised
Value(v) == [exc |-> "", val |-> v]
Raise(e) == [exc |-> e, val |-> PyNone]

\* key in v, for a str key
PyIn(key, v) ==
    CASE v.t = "dict" -> Value(PyBool(\E i \in 1..Len(v.keys) : v.keys[i] = key))
      [] v.t = "list" -> Value(PyBool(\E i \in 1..Len(v.kids) : v.kids[i] = PyStr(key)))
      [] v.t = "str"  -> Value(PyBool(IsSubstring(key, v.s)))
      [] OTHER        -> Raise("TypeError")

\* v[key], for a str key
PyGetKey(v, key) ==
    CASE v.t = "dict" ->
           IF \E i \in 1..Len(v.keys) : v.keys[i] = key
           THEN Value(v.kids[Max({i \in 1..Len(v.keys) : v.keys[i] = key})])
           ELSE Raise("KeyError")
      [] OTHER -> Raise("TypeError")

\* v[0]
PyGet0(v) ==
    CASE v.t = "list" -> IF v.kids = <<>> THEN Raise("IndexError") ELSE Value(v.kids[1])
      [] v.t = "str"  -> IF v.s = <<>> THEN Raise("IndexError") ELSE Value(PyStr(<<v.s[1]>>))
      [] v.t = "dict" -> Raise("KeyError")
      [] OTHER        -> Raise("TypeError")

\* -------------------------------------------------------------- literals
\* the str literals of lines 89-92, character by character
KeyChoices == <<"c", "h", "o", "i", "c", "e", "s">>
KeyMessage == <<"m", "e", "s", "s", "a", "g", "e">>
KeyContent == <<"c", "o", "n", "t", "e", "n", "t">>

\* the literals of line 43, each literal part one unit
KeyPrefix == "nvapi-"
PlaceholderKey == <<KeyPrefix, "YOUR_ACTUAL_API_KEY_HERE">>
RevokedPrefix == <<KeyPrefix, "ziMpyqbV">>

NVIDIA_API_URL == "https://integrate.api.nvidia.com/v1/chat/completions"

\* the triple-quoted literal of lines 53-69, one unit (it has no placeholder)
system_prompt_base == <<"You are a highly professional, empathetic, and constructive resume reviewer. ... ### Actionable Steps\n">>
\* the two literal parts of the f-string of line 71, around {target_job_role.strip()}
ClauseBefore == <<"\n\n**Special consideration:** The user is targeting a **">>
ClauseAfter == <<"** role. Please tailor your keyword and relevance analysis to this role.">>
\* the literal part of the f-string of line 77
UserPreamble == <<"Here is the resume text to review:\n\n">>

\* ------------------------------------------------------ extract_resume_text
\* line 29 without the strip: not text
IsBlankNoStrip(text) == text = <<>>
\* line 29: not text.strip()
IsBlank(text) == Strip(text) = <<>>

\* the message of line 34 as a warning
ExtractionErrorMessageAsWarning(e) ==
    [level |-> "warning", kind |-> "empty_extraction", exc |-> "", status |-> 0]
\* line 34: st.error(... Details: {e})
ExtractionErrorMessage(e) ==
    [level |-> "error", kind |-> "extraction_error", exc |-> e, status |-> 0]

\* line 30: st.warning(...)
EmptyExtractionMessage ==
    [level |-> "warning", kind |-> "empty_extraction", exc |-> "", status |-> 0]

\* extract_text(pdf_file) of pdfminer: the text of the document, or an exception
extract_text(pdf_file) ==
    IF pdf_file.parseable THEN Value(PyStr(pdf_file.text)) ELSE Raise(pdf_file.err)

\* lines 26-35: the value returned and the messages shown
extract_resume_text(pdf_file) ==
    LET r == extract_text(pdf_file)
    IN  IF r.exc # ""
        THEN [ret |-> <<>>, shown |-> <<ExtractionErrorMessage(r.exc)>>]
        ELSE IF IsBlank(r.val.s)
             THEN [ret |-> <<>>, shown |-> <<EmptyExtractionMessage>>]
             ELSE [ret |-> r.val.s, shown |-> <<>>]

\* ------------------------------------------------------ get_feedback_nvidia
\* line 43 without the startswith test
CredentialRejectedNoPrefix(key) ==
    \/ ~Truthy(key)
    \/ key.s = PlaceholderKey
\* line 43
CredentialRejected(key) ==
    \/ ~Truthy(key)
    \/ key.s = PlaceholderKey
    \/ StartsWith(key.s, RevokedPrefix)

\* line 44
CredentialErrorMessage ==
    [level |-> "error", kind |-> "credential_error", exc |-> "", status |-> 0]

\* lines 47-50
Headers(key) == [Authorization |-> <<"Bearer ">> \o key.s, ContentType |-> "application/json"]

\* line 70 without the strip
RoleGivenNoStrip(target_job_role) == Truthy(target_job_role)
\* line 70: target_job_role and target_job_role.strip()
RoleGiven(target_job_role) ==
    Truthy(target_job_role) /\ Strip(target_job_role.s) # <<>>

\* line 71 with the role as given
TailoringClauseNoStrip(target_job_role) ==
    ClauseBefore \o target_job_role.s \o ClauseAfter
\* line 71: the text appended to system_prompt_base
TailoringClause(target_job_role) ==
    ClauseBefore \o Strip(target_job_role.s) \o ClauseAfter

\* lines 53-71: the content of the system message
SystemPrompt(target_job_role) ==
    IF RoleGiven(target_job_role)
    THEN system_prompt_base \o TailoringClause(target_job_role)
    ELSE system_prompt_base

\* line 77 with the text stripped
UserContentStripped(text) == UserPreamble \o Strip(text)
\* line 77: the content of the user message
UserContent(text) == UserPreamble \o text

NoPayload == [built |-> FALSE, model |-> "", system |-> <<>>, user |-> <<>>,
              max_tokens |-> 0, temperature |-> "", top_p |-> ""]

\* lines 73-82
Payload(text, target_job_role) ==
    [built |-> TRUE, model |-> "meta/llama3-70b-instruct",
     system |-> SystemPrompt(target_job_role), user |-> UserContent(text),
     max_tokens |-> 1500, temperature |-> "0.5", top_p |-> "0.9"]

\* line 86 raising for 5xx only
RaiseForStatus5xxOnly(status) == 500 <= status /\ status < 600
\* line 86: response.raise_for_status() raises HTTPError for 4xx and 5xx
RaiseForStatus(status) == 400 <= status /\ status < 600

\* line 89 without the truth test of the value
ChoicesConditionNoTruthTest(response_json) ==
    LET a == PyIn(KeyChoices, response_json)
    IN  IF a.exc # "" THEN a
        ELSE IF ~Truthy(a.val) THEN Value(PyBool(FALSE))
        ELSE LET g == PyGetKey(response_json, KeyChoices)
             IN  IF g.exc # "" THEN g ELSE Value(PyBool(TRUE))
\* line 89: "choices" in response_json and response_json["choices"]
ChoicesCondition(response_json) ==
    LET a == PyIn(KeyChoices, response_json)
    IN  IF a.exc # "" THEN a
        ELSE IF ~Truthy(a.val) THEN Value(PyBool(FALSE))
        ELSE LET g == PyGetKey(response_json, KeyChoices)
             IN  IF g.exc # "" THEN g ELSE Value(PyBool(Truthy(g.val)))

\* line 91: "message" in first_choice and "content" in first_choice["message"]
MessageCondition(first_choice) ==
    LET a == PyIn(KeyMessage, first_choice)
    IN  IF a.exc # "" THEN a
        ELSE IF ~Truthy(a.val) THEN Value(PyBool(FALSE))
        ELSE LET g == PyGetKey(first_choice, KeyMessage)
             IN  IF g.exc # "" THEN g ELSE PyIn(KeyContent, g.val)

Returned(v) == [exc |-> "", fell |-> FALSE, val |-> v]
FellThrough == [exc |-> "", fell |-> TRUE, val |-> PyNone]
Raised(e) == [exc |-> e, fell |-> FALSE, val |-> PyNone]

\* line 92: first_choice["message"]["content"]
ContentOf(first_choice) ==
    LET m == PyGetKey(first_choice, KeyMessage)
    IN  IF m.exc # "" THEN m ELSE PyGetKey(m.val, KeyContent)

\* lines 89-93: the value returned, an exception, or falling through to line 94
ParseResponse(response_json) ==
    LET c == ChoicesCondition(response_json)
    IN  IF c.exc # "" THEN Raised(c.exc)
        ELSE IF ~Truthy(c.val) THEN FellThrough
        ELSE LET ch == PyGetKey(response_json, KeyChoices)
                 f  == IF ch.exc # "" THEN ch ELSE PyGet0(ch.val)
             IN  IF f.exc # "" THEN Raised(f.exc)
                 ELSE LET m == MessageCondition(f.val)
                      IN  IF m.exc # "" THEN Raised(m.exc)
                          ELSE IF ~Truthy(m.val) THEN FellThrough
                          ELSE LET v == ContentOf(f.val)
                               IN  IF v.exc # "" THEN Raised(v.exc)
                                   ELSE Returned(v.val)

\* line 94
UnexpectedFormatMessage ==
    [level |-> "warning", kind |-> "unexpected_format", exc |-> "", status |-> 0]
\* line 99: st.error(... {e} ...)
NetworkErrorMessage(e, status) ==
    [level |-> "error", kind |-> "network_api_error", exc |-> e, status |-> status]
\* line 103: st.error(... {e})
UnexpectedErrorMessage(e) ==
    [level |-> "error", kind |-> "unexpected_error", exc |-> e, status |-> 0]

\* ------------------------------------------------------------------ inputs
TextChars == {"a", " "}
RoleChars == {"D", " "}

NoFile == [present |-> FALSE, parseable |-> FALSE, text |-> <<>>, err |-> ""]

\* what st.file_uploader can hold: a PDF pdfminer reads as some text, or one
\* it fails on
Documents ==
    {[present |-> TRUE, parseable |-> TRUE, text |-> t, err |-> ""] :
        t \in SeqsUpTo(TextChars, MaxTextLen)}
    \cup {[present |-> TRUE, parseable |-> FALSE, text |-> <<>>, err |-> e] :
        e \in {"PDFSyntaxError", "PSEOF"}}

\* what st.text_input can hold
Roles == {PyStr(r) : r \in SeqsUpTo(RoleChars, MaxRoleLen)}

\* what os.getenv("NVIDIA_API_KEY") can return
Keys ==
    {PyNone, PyStr(<<>>), PyStr(PlaceholderKey), PyStr(RevokedPrefix),
     PyStr(RevokedPrefix \o <<"k">>), PyStr(PlaceholderKey \o <<"k">>),
     PyStr(<<KeyPrefix, "k">>), PyStr(<<"k">>)}

\* JSON values at choices[0].message.content
Contents ==
    {PyStr(<<>>), PyStr(<<"#">>), PyStr(<<"#", " ">>), PyNone, PyInt(0), PyInt(5),
     PyList(<<>>)}

\* JSON values at choices[0].message
MessageValues ==
    {PyDict(<<KeyContent>>, <<c>>) : c \in Contents}
    \cup {PyDict(<<>>, <<>>), PyDict(<<<<"r">>>>, <<PyStr(<<"u">>)>>), PyNone, PyInt(5),
          PyStr(KeyContent), PyStr(<<"x">>), PyList(<<>>), PyList(<<PyStr(KeyContent)>>)}

\* JSON values at choices[0]
FirstChoices ==
    {PyDict(<<KeyMessage>>, <<m>>) : m \in MessageValues}
    \cup {PyDict(<<>>, <<>>), PyDict(<<<<"i">>>>, <<PyInt(0)>>), PyNone, PyInt(5),
          PyStr(KeyMessage), PyStr(<<"x">>), PyList(<<>>), PyList(<<PyStr(KeyMessage)>>)}

\* JSON values at choices
ChoicesValues ==
    {PyList(<<f>>) : f \in FirstChoices}
    \cup {PyList(<<>>), PyNone, PyInt(0), PyInt(5), PyBool(TRUE), PyStr(<<>>),
          PyStr(<<"x">>), PyStr(KeyMessage), PyDict(<<>>, <<>>),
          PyDict(<<<<"0">>>>, <<PyInt(0)>>)}

\* JSON values of a response body
Bodies ==
    {PyDict(<<KeyChoices>>, <<c>>) : c \in ChoicesValues}
    \cup {PyDict(<<>>, <<>>), PyDict(<<<<"e">>>>, <<PyStr(<<"x">>)>>), PyNone, PyInt(5),
          PyStr(KeyChoices), PyStr(<<"x">>), PyList(<<>>), PyList(<<PyStr(KeyChoices)>>)}

StatusCodes == {200, 201, 304, 401, 500}

NoResponse == [kind |-> "none", exc |-> "", status |-> 0, json_ok |-> FALSE,
               body |-> PyNone]

\* what requests.post can end in: a transport exception, or a response whose
\* body is JSON
Outcomes ==
    {[kind |-> "exception", exc |-> e, status |-> 0, json_ok |-> FALSE, body |-> PyNone] :
        e \in {"ConnectionError", "Timeout"}}
    \cup {[kind |-> "http", exc |-> "", status |-> st, json_ok |-> TRUE, body |-> b] :
        st \in StatusCodes, b \in Bodies}

NoRequest == [sent |-> FALSE, url |-> "", headers |-> Headers(PyNone), json |-> NoPayload]
NothingRendered == [shown |-> FALSE, markdown |-> PyNone]

\* ------------------------------------------------------------------- state
Init ==
    /\ API_KEY \in Keys
    /\ uploaded_file = NoFile
    /\ target_role = PyStr(<<>>)
    /\ pc = "idle"
    /\ triggered = FALSE
    /\ resume_text = <<>>
    /\ extract_calls = 0
    /\ payload = NoPayload
    /\ requests_built = 0
    /\ request = NoRequest
    /\ posts = 0
    /\ response = NoResponse
    /\ feedback = PyNone
    /\ messages = <<>>
    /\ rendered = NothingRendered

\* every rerun of the script starts from an empty page and fresh names
FreshRun ==
    /\ resume_text' = <<>>
    /\ extract_calls' = 0
    /\ payload' = NoPayload
    /\ requests_built' = 0
    /\ request' = NoRequest
    /\ posts' = 0
    /\ response' = NoResponse
    /\ feedback' = PyNone
    /\ messages' = <<>>
    /\ rendered' = NothingRendered

\* line 169: the user picks a file; the script reruns with the button not pressed
UploadFile(doc) ==
    /\ pc = "idle"
    /\ uploaded_file' = doc
    /\ triggered' = FALSE
    /\ FreshRun
    /\ UNCHANGED <<API_KEY, target_role, pc>>

\* lines 172-176: the user edits the role; the script reruns, button not pressed
EnterTargetRole(r) ==
    /\ pc = "idle"
    /\ target_role' = r
    /\ triggered' = FALSE
    /\ FreshRun
    /\ UNCHANGED <<API_KEY, uploaded_file, pc>>

\* lines 181-186: the button is pressed with a file uploaded
ClickButton ==
    /\ pc = "idle"
    /\ uploaded_file.present
    /\ triggered' = TRUE
    /\ FreshRun
    /\ pc' = "extract"
    /\ UNCHANGED <<API_KEY, uploaded_file, target_role>>

\* lines 187-189: resume_text = extract_resume_text(uploaded_file); if resume_text
ExtractResumeText ==
    /\ pc = "extract"
    /\ LET r == extract_resume_text(uploaded_file)
       IN  /\ resume_text' = r.ret
           /\ messages' = messages \o r.shown
           /\ pc' = IF r.ret # <<>> THEN "get_feedback" ELSE "idle"
    /\ extract_calls' = extract_calls + 1
    /\ UNCHANGED <<API_KEY, uploaded_file, target_role, triggered, payload,
                   requests_built, request, posts, response, feedback, rendered>>

\* lines 191, 42-82: the credential check, then the headers and the payload
GetFeedbackBegin ==
    /\ pc = "get_feedback"
    /\ IF CredentialRejected(API_KEY)
       THEN /\ messages' = Append(messages, CredentialErrorMessage)
            /\ feedback' = PyNone
            /\ pc' = "render"
            /\ UNCHANGED <<payload, requests_built>>
       ELSE /\ payload' = Payload(resume_text, target_role)
            /\ requests_built' = requests_built + 1
            /\ pc' = "post"
            /\ UNCHANGED <<messages, feedback>>
    /\ UNCHANGED <<API_KEY, uploaded_file, target_role, triggered, resume_text,
                   extract_calls, request, posts, response, rendered>>

\* lines 47-50, 85: requests.post sends the request and blocks
Post ==
    /\ pc = "post"
    /\ request' = [sent |-> TRUE, url |-> NVIDIA_API_URL,
                    headers |-> Headers(API_KEY), json |-> payload]
    /\ posts' = posts + 1
    /\ pc' = "await"
    /\ UNCHANGED <<API_KEY, uploaded_file, target_role, triggered, resume_text,
                   extract_calls, payload, requests_built, response, feedback,
                   messages, rendered>>

\* lines 85-104: requests.post ends in outcome o, a transport exception or a
\* response whose body is JSON; the response is classified
Receive(o) ==
    /\ pc = "await"
    /\ response' = o
    /\ \/ /\ o.kind = "exception"
          /\ messages' = Append(messages, NetworkErrorMessage(o.exc, 0))
          /\ feedback' = PyNone
       \/ /\ o.kind = "http"
          /\ RaiseForStatus(o.status)
          /\ messages' = Append(messages, NetworkErrorMessage("HTTPError", o.status))
          /\ feedback' = PyNone
       \/ /\ o.kind = "http"
          /\ ~RaiseForStatus(o.status)
          /\ LET r == ParseResponse(o.body)
             IN  IF r.exc # ""
                 THEN /\ messages' = Append(messages, UnexpectedErrorMessage(r.exc))
                      /\ feedback' = PyNone
                 ELSE IF r.fell
                 THEN /\ messages' = Append(messages, UnexpectedFormatMessage)
                      /\ feedback' = PyNone
                 ELSE /\ messages' = messages
                      /\ feedback' = r.val
    /\ pc' = "render"
    /\ UNCHANGED <<API_KEY, uploaded_file, target_role, triggered, resume_text,
                   extract_calls, payload, requests_built, request, posts,
                   rendered>>

\* lines 85-88, 97-104: requests.post returns a response whose body is not
\* JSON.  After raise_for_status, response.json() raises JSONDecodeError,
\* which is a RequestException in requests 2.27 and later (line 97) and a
\* plain ValueError before (line 101): either handler may be the one taken.
ReceiveNotJson(st) ==
    /\ pc = "await"
    /\ response' = [kind |-> "http", exc |-> "", status |-> st, json_ok |-> FALSE,
                     body |-> PyNone]
    /\ IF RaiseForStatus(st)
       THEN messages' = Append(messages, NetworkErrorMessage("HTTPError", st))
       ELSE \/ messages' = Append(messages, NetworkErrorMessage("JSONDecodeError", 0))
            \/ messages' = Append(messages, UnexpectedErrorMessage("JSONDecodeError"))
    /\ feedback' = PyNone
    /\ pc' = "render"
    /\ UNCHANGED <<API_KEY, uploaded_file, target_role, triggered, resume_text,
                   extract_calls, payload, requests_built, request, posts,
                   rendered>>

\* lines 192-196: if feedback: ... st.markdown(feedback)
Render ==
    /\ pc = "render"
    /\ rendered' = IF Truthy(feedback)
                   THEN [shown |-> TRUE, markdown |-> feedback]
                   ELSE rendered
    /\ pc' = "idle"
    /\ UNCHANGED <<API_KEY, uploaded_file, target_role, triggered, resume_text,
                   extract_calls, payload, requests_built, request, posts,
                   response, feedback, messages>>

Next ==
    \/ \E doc \in Documents : UploadFile(doc)
    \/ \E r \in Roles : EnterTargetRole(r)
    \/ ClickButton
    \/ ExtractResumeText
    \/ GetFeedbackBegin
    \/ Post
    \/ \E o \in Outcomes : Receive(o)
    \/ \E st \in StatusCodes : ReceiveNotJson(st)
    \/ Render

Spec == Init /\ [][Next]_vars

\* ------------------------------------------------------------------ claims
\* the terms the claims are stated in, written from the JSON and the text,
\* not from the operators of the code above

\* a triggered run has finished
RunOver == triggered /\ pc = "idle"
\* get_feedback_nvidia has been invoked in this run and has returned
FeedbackReturned == triggered /\ resume_text # <<>> /\ pc \in {"render", "idle"}
\* requests.post has returned or raised in this run
Answered == triggered /\ response.kind # "none"

AllWhitespace(x) == \A i \in 1..Len(x) : x[i] \in Whitespace
\* x without its leading and trailing whitespace
Trimmed(x) ==
    LET cuts == {c \in (0..Len(x)) \X (0..Len(x)) :
                    /\ c[1] <= c[2]
                    /\ AllWhitespace(SubSeq(x, 1, c[1]))
                    /\ AllWhitespace(SubSeq(x, c[2] + 1, Len(x)))
                    /\ c[1] < c[2] => (x[c[1] + 1] \notin Whitespace
                                        /\ x[c[2]] \notin Whitespace)
                    /\ c[1] = c[2] => AllWhitespace(x)}
        c == CHOOSE c \in cuts : TRUE
    IN  SubSeq(x, c[1] + 1, c[2])

ExtractionFailed == uploaded_file.present /\ ~uploaded_file.parseable
ExtractionBlank ==
    uploaded_file.present /\ uploaded_file.parseable /\ AllWhitespace(uploaded_file.text)
ExtractionNonBlank ==
    uploaded_file.present /\ uploaded_file.parseable /\ ~AllWhitespace(uploaded_file.text)

CredentialUnusable ==
    \/ API_KEY.t = "None"
    \/ API_KEY.s = <<>>
    \/ API_KEY.s = <<"nvapi-", "YOUR_ACTUAL_API_KEY_HERE">>
    \/ (Len(API_KEY.s) >= 2 /\ API_KEY.s[1] = "nvapi-" /\ API_KEY.s[2] = "ziMpyqbV")

IsObject(j) == j.t = "dict"
HasKey(j, k) == k \in {j.keys[i] : i \in 1..Len(j.keys)}
At(j, k) == j.kids[CHOOSE i \in 1..Len(j.keys) : j.keys[i] = k]

\* the body has the shape choices[0].message.content
WellShaped(b) ==
    /\ IsObject(b) /\ HasKey(b, KeyChoices)
    /\ At(b, KeyChoices).t = "list" /\ At(b, KeyChoices).kids # <<>>
    /\ IsObject(At(b, KeyChoices).kids[1])
    /\ HasKey(At(b, KeyChoices).kids[1], KeyMessage)
    /\ IsObject(At(At(b, KeyChoices).kids[1], KeyMessage))
    /\ HasKey(At(At(b, KeyChoices).kids[1], KeyMessage), KeyContent)
ContentIn(b) == At(At(At(b, KeyChoices).kids[1], KeyMessage), KeyContent)

\* the body is an object and a key of the path is absent, or choices is []
KeyAbsent(b) ==
    /\ IsObject(b)
    /\ \/ ~HasKey(b, KeyChoices)
       \/ /\ At(b, KeyChoices).t = "list"
          /\ \/ At(b, KeyChoices).kids = <<>>
             \/ /\ IsObject(At(b, KeyChoices).kids[1])
                /\ \/ ~HasKey(At(b, KeyChoices).kids[1], KeyMessage)
                   \/ /\ IsObject(At(At(b, KeyChoices).kids[1], KeyMessage))
                      /\ ~HasKey(At(At(b, KeyChoices).kids[1], KeyMessage), KeyContent)

Success2xx == response.kind = "http" /\ response.status \in 200..299
Json2xx == Success2xx /\ response.json_ok

\* C1: when extraction yields empty or whitespace-only text the run ends with
\* the empty-extraction warning alone, get_feedback_nvidia is not invoked, no
\* request is constructed and no POST is made; a constructed or sent request
\* implies that the extracted text was not blank.
C1_BlankExtractionEndsInWarning ==
    /\ (triggered /\ ExtractionBlank) =>
          /\ pc \in {"extract", "idle"}
          /\ requests_built = 0 /\ ~payload.built /\ posts = 0 /\ ~request.sent
          /\ pc = "idle" => /\ messages = <<EmptyExtractionMessage>>
                            /\ messages[1].level = "warning"
                            /\ ~rendered.shown
    /\ (payload.built \/ request.sent \/ requests_built > 0 \/ posts > 0) =>
          ExtractionNonBlank /\ ~AllWhitespace(resume_text)

C1_Witness ==
    /\ RunOver /\ uploaded_file.parseable /\ uploaded_file.text = <<" ">>
    /\ messages = <<EmptyExtractionMessage>> /\ extract_calls = 1

\* C2 as claimed: every run whose extraction yields non-blank text constructs
\* exactly one request, whose user content contains the text verbatim.
C2_Original ==
    (RunOver /\ ExtractionNonBlank) =>
        /\ requests_built = 1 /\ payload.built
        /\ IsSubstring(uploaded_file.text, payload.user)

\* C2 amended: a run whose extraction yields non-blank text and whose
\* credential passes the check constructs exactly one request, whose user
\* content is the preamble followed by the extracted text unchanged; with a
\* rejected credential it constructs none.  No run constructs two.
C2_OneRequestWithTextVerbatim ==
    /\ requests_built <= 1
    /\ (triggered /\ ExtractionNonBlank /\ pc \in {"post", "await", "render", "idle"}) =>
          IF CredentialUnusable
          THEN requests_built = 0 /\ ~payload.built
          ELSE /\ requests_built = 1 /\ payload.built
               /\ resume_text = uploaded_file.text
               /\ payload.user = UserPreamble \o uploaded_file.text
               /\ IsSubstring(uploaded_file.text, payload.user)
               /\ request.sent => request.json = payload

C2_Witness ==
    /\ RunOver /\ ~CredentialUnusable /\ uploaded_file.text = <<" ", "a">>
    /\ requests_built = 1 /\ request.sent

\* C3: when get_feedback_nvidia is invoked with the credential absent, empty,
\* equal to the placeholder or starting with the revoked prefix, it shows the
\* credential error and returns None; no request is constructed and no POST
\* is made in that run.
C3_CredentialErrorBeforeRequest ==
    /\ CredentialUnusable => (~payload.built /\ requests_built = 0 /\ posts = 0
                              /\ ~request.sent /\ response.kind = "none")
    /\ (FeedbackReturned /\ CredentialUnusable) =>
          /\ messages = <<CredentialErrorMessage>>
          /\ messages[1].level = "error"
          /\ feedback = PyNone
          /\ ~rendered.shown

C3_Witness ==
    /\ FeedbackReturned /\ pc = "render"
    /\ API_KEY = PyStr(<<"nvapi-", "ziMpyqbV", "k">>)
    /\ messages = <<CredentialErrorMessage>>

\* C4: for a target role of only whitespace, the empty string included, the
\* system content of the constructed request is the system content of the
\* no-role case (None), which is the fixed template.
C4_BlankRoleIsNoRole ==
    (payload.built /\ AllWhitespace(target_role.s)) =>
        /\ payload.system = SystemPrompt(PyNone)
        /\ payload.system = system_prompt_base

C4_Witness == payload.built /\ target_role.s = <<" ">> /\ request.sent

\* C5 as claimed: for a non-blank role the system content is the template
\* followed by one clause naming the supplied role string verbatim, and
\* differs from the no-role case.
C5_Original ==
    (payload.built /\ ~AllWhitespace(target_role.s)) =>
        /\ payload.system = system_prompt_base \o ClauseBefore \o target_role.s \o ClauseAfter
        /\ payload.system # SystemPrompt(PyNone)

\* C5 amended: for a non-blank role the system content is the template
\* followed by one clause naming the supplied role with its leading and
\* trailing whitespace removed; it contains that trimmed role and differs
\* from the no-role case.
C5_ClauseNamesTrimmedRole ==
    (payload.built /\ ~AllWhitespace(target_role.s)) =>
        /\ payload.system =
              system_prompt_base \o ClauseBefore \o Trimmed(target_role.s) \o ClauseAfter
        /\ IsSubstring(Trimmed(target_role.s), payload.system)
        /\ payload.system # SystemPrompt(PyNone)

C5_Witness == payload.built /\ target_role.s = <<" ", "D">> /\ request.sent

\* C6 as claimed: a non-2xx response or a transport exception gives the
\* network/API error, no feedback, and at most one POST.
C6_Original ==
    /\ posts <= 1
    /\ (Answered /\ (response.kind = "exception" \/ response.status \notin 200..299)) =>
          /\ Len(messages) = 1 /\ messages[1].kind = "network_api_error"
          /\ feedback = PyNone /\ ~rendered.shown

\* C6 amended: a 4xx or 5xx response or a transport exception gives the
\* network/API error carrying the exception (and the status), no feedback is
\* returned or rendered, and no run makes more than one POST.
C6_ClientServerErrorIsNetworkError ==
    /\ posts <= 1
    /\ (Answered /\ response.kind = "exception") =>
          /\ messages = <<[level |-> "error", kind |-> "network_api_error",
                           exc |-> response.exc, status |-> 0]>>
          /\ feedback = PyNone /\ ~rendered.shown /\ posts = 1
    /\ (Answered /\ response.kind = "http" /\ response.status \in 400..599) =>
          /\ messages = <<[level |-> "error", kind |-> "network_api_error",
                           exc |-> "HTTPError", status |-> response.status]>>
          /\ feedback = PyNone /\ ~rendered.shown /\ posts = 1

C6_Witness ==
    /\ RunOver /\ response.status = 401 /\ response.json_ok
    /\ WellShaped(response.body) /\ ContentIn(response.body) = PyStr(<<"#">>)
    /\ Len(messages) = 1

\* C7 as claimed: a 2xx response whose body lacks the shape (body not an
\* object, no choices key, choices empty or not a list, first choice not an
\* object, no message key, message not an object, no content key) gives the
\* unexpected-format warning and no feedback.
C7_Original ==
    (Answered /\ Json2xx /\ ~WellShaped(response.body)) =>
        /\ messages = <<UnexpectedFormatMessage>>
        /\ feedback = PyNone

\* C7 amended: a 2xx response whose body is an object with no choices key,
\* or with choices [], or whose first choice is an object with no message
\* key, or whose message is an object with no content key, gives the
\* unexpected-format warning.  For the other bodies that lack the shape
\* (a value of the wrong type on the path) the one message shown is that
\* warning or the unexpected-error error.  In every case no feedback is
\* returned or rendered.
C7_MalformedBodyNoFeedback ==
    /\ (Answered /\ Json2xx /\ KeyAbsent(response.body)) =>
          /\ messages = <<UnexpectedFormatMessage>>
          /\ messages[1].level = "warning"
    /\ (Answered /\ Json2xx /\ ~WellShaped(response.body)) =>
          /\ Len(messages) = 1
          /\ \/ messages[1] = UnexpectedFormatMessage
             \/ messages[1].level = "error" /\ messages[1].kind = "unexpected_error"
          /\ feedback = PyNone
          /\ ~rendered.shown

C7_Witness ==
    /\ RunOver /\ response.status = 200
    /\ response.body = PyDict(<<KeyChoices>>, <<PyList(<<>>)>>)
    /\ messages = <<UnexpectedFormatMessage>>

\* C8 as claimed: a 2xx response with a well-shaped body whose content is a
\* string makes get_feedback_nvidia return that string and the run render
\* exactly it, the empty string included, with no warning or error.
C8_Original ==
    (Answered /\ Json2xx /\ WellShaped(response.body)
       /\ ContentIn(response.body).t = "str") =>
        /\ feedback = ContentIn(response.body)
        /\ messages = <<>>
        /\ pc = "idle" => rendered = [shown |-> TRUE, markdown |-> ContentIn(response.body)]

\* C9: when the extraction library raises, extract_resume_text shows the
\* extraction error carrying the exception (not the empty-extraction
\* warning) and returns no text; the run ends without get_feedback_nvidia,
\* without a request or a POST; extraction is attempted once.
C9_ExtractionFailureAborts ==
    /\ extract_calls <= 1
    /\ (triggered /\ ExtractionFailed) =>
          /\ pc \in {"extract", "idle"}
          /\ requests_built = 0 /\ ~payload.built /\ posts = 0 /\ ~request.sent
          /\ pc = "idle" =>
                /\ messages = <<[level |-> "error", kind |-> "extraction_error",
                                 exc |-> uploaded_file.err, status |-> 0]>>
                /\ resume_text = <<>>
                /\ extract_calls = 1
                /\ ~rendered.shown

C9_Witness ==
    /\ RunOver /\ ExtractionFailed /\ uploaded_file.err = "PDFSyntaxError"
    /\ extract_calls = 1 /\ Len(messages) = 1

\* C10 as claimed: every triggered run ends either with the feedback
\* rendered and no message, or with exactly one error or warning message and
\* no feedback rendered; never with neither and never with both.
C10_Original ==
    RunOver =>
        \/ rendered.shown /\ messages = <<>>
        \/ ~rendered.shown /\ Len(messages) = 1

====
